---- MODULE Spec2Model ----
(***************************************************************************)
(* Model of libafl/src/corpus/inmemory.rs: TestcaseStorage (the ordered    *)
(* store, in its two cfg variants) and InMemoryCorpus (the record          *)
(* container with its `current` cursor).                                   *)
(*                                                                         *)
(* Option<T> is modelled as a tuple: None is << >>, Some(x) is << x >>.    *)
(* Result<T, Error> is a record [ok |-> TRUE, val |-> x] or                *)
(* [ok |-> FALSE, err |-> "KeyNotFound"].                                  *)
(***************************************************************************)
EXTENDS Integers, Sequences, FiniteSets, TLC

\* Number of identifiers the allocator may issue in one run (caps progressive_idx).
MaxIdx == 3

\* Payloads (the opaque Testcase<I> values) handed to add and replace.
Testcases == {"A", "B"}

\* Identifiers used as arguments: every issuable one plus one never issued.
CorpusId == 0..MaxIdx

\* The two builds: default (HashMap with prev/next links) and corpus_btreemap.
Features == {"hashmap", "btreemap"}

VARIABLES
    feature,     \* which cfg variant was compiled in (fixed for a run)
    entries,     \* InMemoryCorpus.entries : TestcaseStorage
    current,     \* InMemoryCorpus.current : Option<CorpusId>
    panicked,    \* TRUE once a call has panicked (unwrap on None)
    call,        \* the most recent call: [op, idx, testcase, ret]
    issued,      \* history: identifiers returned by add, in call order
    removed,     \* history: number of remove calls that returned Some
    given,       \* history: per identifier not yet given back, the payload last handed in
    twin         \* the container of the other build, driven by the same calls

vars == <<feature, entries, current, panicked, call, issued, removed, given, twin>>

-----------------------------------------------------------------------------
\* Option and Result

None == << >>
Some(x) == << x >>
Ok(x) == [ok |-> TRUE, val |-> x]
KeyNotFound == [ok |-> FALSE, err |-> "KeyNotFound"]

-----------------------------------------------------------------------------
\* Map primitives (hashbrown::HashMap / BTreeMap as a function on its key set)

MapInsert(m, k, v) == [x \in (DOMAIN m) \cup {k} |-> IF x = k THEN v ELSE m[x]]
MapRemove(m, k) == [x \in (DOMAIN m) \ {k} |-> m[x]]
EmptyMap == [x \in {} |-> x]

\* The keys of S in ascending order (BTreeMap iteration order).
RECURSIVE SortedKeys(_)
SortedKeys(S) ==
    IF S = {} THEN << >>
    ELSE LET lo == CHOOSE k \in S : \A j \in S : k <= j
         IN << lo >> \o SortedKeys(S \ {lo})

Reverse(s) == [i \in 1..Len(s) |-> s[Len(s) + 1 - i]]

-----------------------------------------------------------------------------
\* TestcaseStorage

\* #[derive(Default)]: empty map, counter 0, no first/last.
TestcaseStorageDefault ==
    [map |-> EmptyMap, progressive_idx |-> 0, first_idx |-> None, last_idx |-> None]

\* TestcaseStorage::insert, HashMap build.  The unwrap on the old tail panics
\* when last_idx names a key that is not in the map; progressive_idx has been
\* advanced by then.
insert_hashmap(s, testcase) ==
    LET idx == s.progressive_idx
        bumped == [s EXCEPT !.progressive_idx = idx + 1]
    IN  IF s.last_idx # None /\ s.last_idx[1] \notin DOMAIN s.map
        THEN [panic |-> TRUE, storage |-> bumped, ret |-> None]
        ELSE LET linked == IF s.last_idx # None
                           THEN [s.map EXCEPT ![s.last_idx[1]].next = Some(idx)]
                           ELSE s.map
                 prev == s.last_idx
                 item == [testcase |-> testcase, prev |-> prev, next |-> None]
             IN  [panic |-> FALSE,
                  storage |-> [map |-> MapInsert(linked, idx, item),
                               progressive_idx |-> idx + 1,
                               first_idx |-> IF s.first_idx = None
                                             THEN Some(idx) ELSE s.first_idx,
                               last_idx |-> Some(idx)],
                  ret |-> Some(idx)]

\* A faulty insert that takes the identifier from the map's length instead of
\* the counter, so that an identifier comes back after a removal.
insert_btreemap_reuse(s, testcase) ==
    LET idx == Cardinality(DOMAIN s.map)
    IN  [panic |-> FALSE,
         storage |-> [s EXCEPT !.map = MapInsert(s.map, idx, testcase),
                               !.progressive_idx = s.progressive_idx + 1],
         ret |-> Some(idx)]

\* TestcaseStorage::insert, BTreeMap build: the map holds the bare payload.
insert_btreemap(s, testcase) ==
    LET idx == s.progressive_idx
    IN  [panic |-> FALSE,
         storage |-> [s EXCEPT !.map = MapInsert(s.map, idx, testcase),
                               !.progressive_idx = idx + 1],
         ret |-> Some(idx)]

insert(f, s, testcase) ==
    IF f = "hashmap" THEN insert_hashmap(s, testcase) ELSE insert_btreemap(s, testcase)

\* TestcaseStorage::remove, HashMap build: unlinks the item from its neighbours
\* and moves first_idx/last_idx.  InMemoryCorpus::remove does not call it.
remove_hashmap(s, idx) ==
    IF idx \in DOMAIN s.map
    THEN LET item == s.map[idx]
             m0 == MapRemove(s.map, idx)
             bad == \/ item.prev # None /\ item.prev[1] \notin DOMAIN m0
                    \/ item.next # None /\ item.next[1] \notin DOMAIN m0
             m1 == IF item.prev # None
                   THEN [m0 EXCEPT ![item.prev[1]].next = item.next] ELSE m0
             m2 == IF item.next # None
                   THEN [m1 EXCEPT ![item.next[1]].prev = item.prev] ELSE m1
         IN  IF bad
             THEN [panic |-> TRUE, storage |-> [s EXCEPT !.map = m0], ret |-> None]
             ELSE [panic |-> FALSE,
                   storage |-> [s EXCEPT !.map = m2,
                                         !.first_idx = IF item.prev = None
                                                       THEN item.next ELSE @,
                                         !.last_idx = IF item.next = None
                                                      THEN item.prev ELSE @],
                   ret |-> Some(item.testcase)]
    ELSE [panic |-> FALSE, storage |-> s, ret |-> None]

\* TestcaseStorage::remove, BTreeMap build.
remove_btreemap(s, idx) ==
    IF idx \in DOMAIN s.map
    THEN [panic |-> FALSE, storage |-> [s EXCEPT !.map = MapRemove(s.map, idx)],
          ret |-> Some(s.map[idx])]
    ELSE [panic |-> FALSE, storage |-> s, ret |-> None]

\* The payload held under a live key (item.testcase, or the bare value).
testcase_of(f, s, idx) ==
    IF f = "hashmap" THEN s.map[idx].testcase ELSE s.map[idx]

\* TestcaseStorage::next
next_hashmap(s, idx) ==
    IF idx \in DOMAIN s.map THEN s.map[idx].next ELSE None

\* A faulty next that takes the first key after idx without checking that idx
\* itself is a key, so an absent idx gets its nearest live neighbour.
next_btreemap_unchecked(s, idx) ==
    LET range == SortedKeys({k \in DOMAIN s.map : k > idx})
    IN  IF Len(range) >= 1 THEN Some(range[1]) ELSE None

next_btreemap(s, idx) ==
    LET range == SortedKeys({k \in DOMAIN s.map : k >= idx})
    IN  IF Len(range) >= 1 /\ range[1] # idx THEN None
        ELSE IF Len(range) >= 2 THEN Some(range[2]) ELSE None

\* TestcaseStorage::prev
prev_hashmap(s, idx) ==
    IF idx \in DOMAIN s.map THEN s.map[idx].prev ELSE None

prev_btreemap(s, idx) ==
    LET range == Reverse(SortedKeys({k \in DOMAIN s.map : k <= idx}))
    IN  IF Len(range) >= 1 /\ range[1] # idx THEN None
        ELSE IF Len(range) >= 2 THEN Some(range[2]) ELSE None

\* TestcaseStorage::first / last
first_hashmap(s) == s.first_idx

first_btreemap(s) ==
    LET keys == SortedKeys(DOMAIN s.map)
    IN  IF Len(keys) >= 1 THEN Some(keys[1]) ELSE None

last_hashmap(s) == s.last_idx

last_btreemap(s) ==
    LET keys == SortedKeys(DOMAIN s.map)
    IN  IF Len(keys) >= 1 THEN Some(keys[Len(keys)]) ELSE None

-----------------------------------------------------------------------------
\* InMemoryCorpus: queries

\* A faulty count that reports the allocator counter.
count_progressive == entries.progressive_idx

count == Cardinality(DOMAIN entries.map)

next(idx) ==
    IF feature = "hashmap" THEN next_hashmap(entries, idx) ELSE next_btreemap(entries, idx)

prev(idx) ==
    IF feature = "hashmap" THEN prev_hashmap(entries, idx) ELSE prev_btreemap(entries, idx)

first ==
    IF feature = "hashmap" THEN first_hashmap(entries) ELSE first_btreemap(entries)

last ==
    IF feature = "hashmap" THEN last_hashmap(entries) ELSE last_btreemap(entries)

\* InMemoryCorpus::get as a value: Ok(payload) or the KeyNotFound error.
get(idx) ==
    IF idx \in DOMAIN entries.map
    THEN Ok(testcase_of(feature, entries, idx))
    ELSE KeyNotFound

-----------------------------------------------------------------------------
\* derive(Serialize, Deserialize): a structural copy, field by field

\* The orders in which a map of build f yields its keys: ascending for the
\* BTreeMap, unspecified for the HashMap.
KeyOrders(f, S) ==
    IF f = "btreemap" THEN {SortedKeys(S)}
    ELSE {o \in [1..Cardinality(S) -> S] : \A i, j \in 1..Cardinality(S) : o[i] = o[j] => i = j}

\* Serialize: the map as the sequence of its (key, value) pairs in iteration
\* order, and the other fields as they are.
serialize(s, order) ==
    [map |-> [i \in 1..Len(order) |-> << order[i], s.map[order[i]] >>],
     progressive_idx |-> s.progressive_idx,
     first_idx |-> s.first_idx,
     last_idx |-> s.last_idx]

\* The map built by inserting the pairs one after the other.
RECURSIVE FromPairs(_)
FromPairs(pairs) ==
    IF pairs = << >> THEN EmptyMap
    ELSE LET n == Len(pairs)
         IN  MapInsert(FromPairs(SubSeq(pairs, 1, n - 1)), pairs[n][1], pairs[n][2])

\* A faulty deserialize that re-derives the counter from the number of entries.
deserialize_recount(d) ==
    [map |-> FromPairs(d.map),
     progressive_idx |-> Len(d.map),
     first_idx |-> d.first_idx,
     last_idx |-> d.last_idx]

\* Deserialize: every field is read back as written.
deserialize(d) ==
    [map |-> FromPairs(d.map),
     progressive_idx |-> d.progressive_idx,
     first_idx |-> d.first_idx,
     last_idx |-> d.last_idx]

-----------------------------------------------------------------------------
\* The same calls on the other build

\* The build that was not compiled in.
other(f) == IF f = "hashmap" THEN "btreemap" ELSE "hashmap"

\* The traversal queries and get of a storage s of build f.
next_of(f, s, idx) ==
    IF f = "hashmap" THEN next_hashmap(s, idx) ELSE next_btreemap(s, idx)

prev_of(f, s, idx) ==
    IF f = "hashmap" THEN prev_hashmap(s, idx) ELSE prev_btreemap(s, idx)

first_of(f, s) ==
    IF f = "hashmap" THEN first_hashmap(s) ELSE first_btreemap(s)

last_of(f, s) ==
    IF f = "hashmap" THEN last_hashmap(s) ELSE last_btreemap(s)

get_of(f, s, idx) ==
    IF idx \in DOMAIN s.map THEN Ok(testcase_of(f, s, idx)) ELSE KeyNotFound

\* One call c = [op, idx, testcase] of the Corpus impl on a container
\* t = [entries, panicked, ret] of build f: what add, replace, remove, get and
\* the queries do to its storage and what they return.  A container that has
\* panicked takes no further calls.  The cursor calls do not touch the storage.
apply(f, t, c) ==
    LET s == t.entries
        same(r) == [entries |-> s, panicked |-> FALSE, ret |-> r]
    IN  IF t.panicked THEN t
        ELSE CASE c.op = "add" ->
                    LET r == insert(f, s, c.testcase[1])
                    IN  [entries |-> r.storage, panicked |-> r.panic,
                         ret |-> IF r.panic THEN None ELSE Ok(r.ret[1])]
               [] c.op = "replace" ->
                    IF c.idx[1] \in DOMAIN s.map
                    THEN [entries |-> IF f = "hashmap"
                                      THEN [s EXCEPT !.map[c.idx[1]].testcase = c.testcase[1]]
                                      ELSE [s EXCEPT !.map[c.idx[1]] = c.testcase[1]],
                          panicked |-> FALSE,
                          ret |-> Ok(testcase_of(f, s, c.idx[1]))]
                    ELSE same(KeyNotFound)
               [] c.op = "remove" ->
                    IF c.idx[1] \in DOMAIN s.map
                    THEN [entries |-> [s EXCEPT !.map = MapRemove(s.map, c.idx[1])],
                          panicked |-> FALSE,
                          ret |-> Ok(Some(testcase_of(f, s, c.idx[1])))]
                    ELSE same(Ok(None))
               [] c.op = "get" -> same(get_of(f, s, c.idx[1]))
               [] c.op = "count" -> same(Cardinality(DOMAIN s.map))
               [] c.op = "first" -> same(first_of(f, s))
               [] c.op = "last" -> same(last_of(f, s))
               [] c.op = "next" -> same(next_of(f, s, c.idx[1]))
               [] c.op = "prev" -> same(prev_of(f, s, c.idx[1]))
               [] OTHER -> same(c.ret)

\* The histories kept beside every call: for each identifier that add returned
\* and no remove has yet given back, the payload handed to that add or to the
\* latest replace that succeeded; and the other build's container after the
\* same call.
Shadow ==
    /\ given' = CASE call'.op = "add" /\ call'.ret # None ->
                        MapInsert(given, call'.ret.val, call'.testcase[1])
                  [] call'.op = "replace" /\ call'.ret.ok ->
                        MapInsert(given, call'.idx[1], call'.testcase[1])
                  [] call'.op = "remove" /\ call'.ret.ok /\ call'.ret.val # None ->
                        MapRemove(given, call'.idx[1])
                  [] OTHER -> given
    /\ twin' = apply(other(feature), twin, call')

-----------------------------------------------------------------------------
\* InMemoryCorpus: operations

\* InMemoryCorpus::new, in either build.
Init ==
    /\ feature \in Features
    /\ entries = TestcaseStorageDefault
    /\ current = None
    /\ panicked = FALSE
    /\ call = [op |-> "new", idx |-> None, testcase |-> None, ret |-> None]
    /\ issued = << >>
    /\ removed = 0
    /\ given = EmptyMap
    /\ twin = [entries |-> TestcaseStorageDefault, panicked |-> FALSE, ret |-> None]

\* add: Ok(self.entries.insert(RefCell::new(testcase)))
Add(testcase) ==
    /\ ~panicked
    /\ entries.progressive_idx < MaxIdx
    /\ LET r == insert(feature, entries, testcase)
       IN  /\ entries' = r.storage
           /\ panicked' = r.panic
           /\ call' = [op |-> "add", idx |-> None, testcase |-> Some(testcase),
                       ret |-> IF r.panic THEN None ELSE Ok(r.ret[1])]
           /\ issued' = IF r.panic THEN issued ELSE Append(issued, r.ret[1])
    /\ UNCHANGED <<feature, current, removed>>
    /\ Shadow

\* A faulty replace that writes a fresh item over the old one (map.insert), so
\* that the HashMap build loses the entry's prev/next links.
Replace_reinsert(idx, testcase) ==
    /\ ~panicked
    /\ IF idx \in DOMAIN entries.map
       THEN /\ entries' =
                 IF feature = "hashmap"
                 THEN [entries EXCEPT !.map[idx] =
                          [testcase |-> testcase, prev |-> None, next |-> None]]
                 ELSE [entries EXCEPT !.map[idx] = testcase]
            /\ call' = [op |-> "replace", idx |-> Some(idx), testcase |-> Some(testcase),
                        ret |-> Ok(testcase_of(feature, entries, idx))]
       ELSE /\ entries' = entries
            /\ call' = [op |-> "replace", idx |-> Some(idx), testcase |-> Some(testcase),
                        ret |-> KeyNotFound]
    /\ UNCHANGED <<feature, current, panicked, issued, removed>>
    /\ Shadow

\* replace: swap the payload of a live entry, or KeyNotFound.
Replace(idx, testcase) ==
    /\ ~panicked
    /\ IF idx \in DOMAIN entries.map
       THEN /\ entries' =
                 IF feature = "hashmap"
                 THEN [entries EXCEPT !.map[idx].testcase = testcase]
                 ELSE [entries EXCEPT !.map[idx] = testcase]
            /\ call' = [op |-> "replace", idx |-> Some(idx), testcase |-> Some(testcase),
                        ret |-> Ok(testcase_of(feature, entries, idx))]
       ELSE /\ entries' = entries
            /\ call' = [op |-> "replace", idx |-> Some(idx), testcase |-> Some(testcase),
                        ret |-> KeyNotFound]
    /\ UNCHANGED <<feature, current, panicked, issued, removed>>
    /\ Shadow

\* A faulty remove that hands back what take() leaves behind, a default
\* payload, instead of the payload taken.
Remove_default(idx) ==
    /\ ~panicked
    /\ IF idx \in DOMAIN entries.map
       THEN /\ entries' = [entries EXCEPT !.map = MapRemove(entries.map, idx)]
            /\ call' = [op |-> "remove", idx |-> Some(idx), testcase |-> None,
                        ret |-> Ok(Some("A"))]
            /\ removed' = removed + 1
       ELSE /\ entries' = entries
            /\ call' = [op |-> "remove", idx |-> Some(idx), testcase |-> None,
                        ret |-> Ok(None)]
            /\ removed' = removed
    /\ UNCHANGED <<feature, current, panicked, issued>>
    /\ Shadow

\* A faulty remove that also clears the cursor when it names the entry taken
\* out.
Remove_clears_current(idx) ==
    /\ ~panicked
    /\ IF idx \in DOMAIN entries.map
       THEN /\ entries' = [entries EXCEPT !.map = MapRemove(entries.map, idx)]
            /\ call' = [op |-> "remove", idx |-> Some(idx), testcase |-> None,
                        ret |-> Ok(Some(testcase_of(feature, entries, idx)))]
            /\ removed' = removed + 1
            /\ current' = IF current = Some(idx) THEN None ELSE current
       ELSE /\ entries' = entries
            /\ call' = [op |-> "remove", idx |-> Some(idx), testcase |-> None,
                        ret |-> Ok(None)]
            /\ removed' = removed
            /\ current' = current
    /\ UNCHANGED <<feature, panicked, issued>>
    /\ Shadow

\* A faulty remove that reports an absent identifier as KeyNotFound, the way
\* get and replace do.
Remove_strict(idx) ==
    /\ ~panicked
    /\ IF idx \in DOMAIN entries.map
       THEN /\ entries' = [entries EXCEPT !.map = MapRemove(entries.map, idx)]
            /\ call' = [op |-> "remove", idx |-> Some(idx), testcase |-> None,
                        ret |-> Ok(Some(testcase_of(feature, entries, idx)))]
            /\ removed' = removed + 1
       ELSE /\ entries' = entries
            /\ call' = [op |-> "remove", idx |-> Some(idx), testcase |-> None,
                        ret |-> KeyNotFound]
            /\ removed' = removed
    /\ UNCHANGED <<feature, current, panicked, issued>>
    /\ Shadow

\* remove: Ok(self.entries.map.remove(&idx).map(|x| x.take())).  The key is
\* taken out of the map directly; links and first_idx/last_idx are not touched.
Remove(idx) ==
    /\ ~panicked
    /\ IF idx \in DOMAIN entries.map
       THEN /\ entries' = [entries EXCEPT !.map = MapRemove(entries.map, idx)]
            /\ call' = [op |-> "remove", idx |-> Some(idx), testcase |-> None,
                        ret |-> Ok(Some(testcase_of(feature, entries, idx)))]
            /\ removed' = removed + 1
       ELSE /\ entries' = entries
            /\ call' = [op |-> "remove", idx |-> Some(idx), testcase |-> None,
                        ret |-> Ok(None)]
            /\ removed' = removed
    /\ UNCHANGED <<feature, current, panicked, issued>>
    /\ Shadow

\* A faulty get that trusts every identifier below the counter: for a removed
\* one it hands back a default payload instead of the error.
Get_stale(idx) ==
    /\ ~panicked
    /\ call' = [op |-> "get", idx |-> Some(idx), testcase |-> None,
                ret |-> IF idx \in DOMAIN entries.map THEN get(idx)
                        ELSE IF idx < entries.progressive_idx THEN Ok("A")
                        ELSE KeyNotFound]
    /\ UNCHANGED <<feature, entries, current, panicked, issued, removed>>
    /\ Shadow

\* get: a shared lookup, Ok(&entry) or KeyNotFound.
Get(idx) ==
    /\ ~panicked
    /\ call' = [op |-> "get", idx |-> Some(idx), testcase |-> None, ret |-> get(idx)]
    /\ UNCHANGED <<feature, entries, current, panicked, issued, removed>>
    /\ Shadow

\* current_mut: the caller overwrites the cursor through the &mut it is given.
CurrentMut(c) ==
    /\ ~panicked
    /\ current' = c
    /\ call' = [op |-> "current_mut", idx |-> c, testcase |-> None, ret |-> None]
    /\ UNCHANGED <<feature, entries, panicked, issued, removed>>
    /\ Shadow

\* count, current, first, last, next and prev as calls: they take &self and
\* only return a value.
Count ==
    /\ ~panicked
    /\ call' = [op |-> "count", idx |-> None, testcase |-> None, ret |-> count]
    /\ UNCHANGED <<feature, entries, current, panicked, issued, removed>>
    /\ Shadow

Current ==
    /\ ~panicked
    /\ call' = [op |-> "current", idx |-> None, testcase |-> None, ret |-> current]
    /\ UNCHANGED <<feature, entries, current, panicked, issued, removed>>
    /\ Shadow

First ==
    /\ ~panicked
    /\ call' = [op |-> "first", idx |-> None, testcase |-> None, ret |-> first]
    /\ UNCHANGED <<feature, entries, current, panicked, issued, removed>>
    /\ Shadow

Last ==
    /\ ~panicked
    /\ call' = [op |-> "last", idx |-> None, testcase |-> None, ret |-> last]
    /\ UNCHANGED <<feature, entries, current, panicked, issued, removed>>
    /\ Shadow

NextOf(idx) ==
    /\ ~panicked
    /\ call' = [op |-> "next", idx |-> Some(idx), testcase |-> None, ret |-> next(idx)]
    /\ UNCHANGED <<feature, entries, current, panicked, issued, removed>>
    /\ Shadow

PrevOf(idx) ==
    /\ ~panicked
    /\ call' = [op |-> "prev", idx |-> Some(idx), testcase |-> None, ret |-> prev(idx)]
    /\ UNCHANGED <<feature, entries, current, panicked, issued, removed>>
    /\ Shadow

\* Serialize the container and put the deserialized copy in its place.
RoundTrip(order) ==
    /\ ~panicked
    /\ entries' = deserialize(serialize(entries, order))
    /\ call' = [op |-> "round_trip", idx |-> None, testcase |-> None, ret |-> None]
    /\ UNCHANGED <<feature, current, panicked, issued, removed>>
    /\ Shadow

Next ==
    \/ \E t \in Testcases : Add(t)
    \/ \E i \in CorpusId, t \in Testcases : Replace(i, t)
    \/ \E i \in CorpusId : Remove(i)
    \/ \E i \in CorpusId : Get(i)
    \/ \E c \in {None} \cup {Some(i) : i \in CorpusId} : CurrentMut(c)
    \/ Count
    \/ Current
    \/ First
    \/ Last
    \/ \E i \in CorpusId : NextOf(i)
    \/ \E i \in CorpusId : PrevOf(i)
    \/ \E o \in KeyOrders(feature, DOMAIN entries.map) : RoundTrip(o)

Spec == Init /\ [][Next]_vars

-----------------------------------------------------------------------------
\* Observers used by the properties

\* The live identifiers.
Live == DOMAIN entries.map

\* The live identifiers in the order in which add returned them.
LiveOrder == SelectSeq(issued, LAMBDA i : i \in Live)

\* The position of a live identifier in LiveOrder.
PosOf(idx) == CHOOSE k \in 1..Len(LiveOrder) : LiveOrder[k] = idx

\* The identifiers met from an Option<CorpusId> by repeated next() (prev()),
\* until it returns None; fuel bounds the walk.
RECURSIVE WalkNext(_, _)
WalkNext(o, fuel) ==
    IF o = None \/ fuel = 0 THEN << >>
    ELSE << o[1] >> \o WalkNext(next(o[1]), fuel - 1)

RECURSIVE WalkPrev(_, _)
WalkPrev(o, fuel) ==
    IF o = None \/ fuel = 0 THEN << >>
    ELSE << o[1] >> \o WalkPrev(prev(o[1]), fuel - 1)

Forward == WalkNext(first, MaxIdx + 2)
Backward == WalkPrev(last, MaxIdx + 2)

-----------------------------------------------------------------------------
\* C1: removing a live interior identifier id, with predecessor p and
\* successor s in insertion order, through the container's remove gives
\* next(p) = s and prev(s) = p, and count() goes down by exactly one.
C1_RemoveInteriorSplices ==
    [][\A id, p, s \in CorpusId :
        (call'.op = "remove" /\ call'.idx = Some(id) /\ id \in Live
            /\ 1 < PosOf(id) /\ PosOf(id) < Len(LiveOrder)
            /\ p = LiveOrder[PosOf(id) - 1]
            /\ s = LiveOrder[PosOf(id) + 1])
        => /\ next(p)' = Some(s)
           /\ prev(s)' = Some(p)
           /\ count' = count - 1]_vars

\* C2: with at least two live entries, removing the head makes first() the
\* former second entry, and removing the tail makes last() the former
\* second-to-last entry.
C2_RemoveHeadTailMovesSentinel ==
    [][\A id \in CorpusId :
        (call'.op = "remove" /\ call'.idx = Some(id) /\ id \in Live
            /\ Len(LiveOrder) >= 2)
        => LET n == Len(LiveOrder)
           IN  /\ id = LiveOrder[1] => first' = Some(LiveOrder[2])
               /\ id = LiveOrder[n] => last' = Some(LiveOrder[n - 1])]_vars

\* C3: walking from first() by next() until it returns nothing visits exactly
\* the live identifiers, each once, in the order in which they were added.
C3_ForwardTraversalIsLiveOrder == ~panicked => Forward = LiveOrder

\* C4: the walk from last() by prev() is the reverse of the walk from first()
\* by next().
C4_BackwardIsReverseOfForward == ~panicked => Backward = Reverse(Forward)

\* C5: add cannot fail: whatever add/replace/remove calls came before, an add
\* completes normally, returns an identifier, and that identifier is last().
C5_AddCannotFail ==
    [][call'.op = "add"
        => /\ ~panicked'
           /\ call'.ret.ok
           /\ last' = Some(call'.ret.val)]_vars

\* C6: the identifiers returned by add, however interleaved with remove and
\* replace, are strictly increasing and pairwise distinct: an identifier that
\* was issued once is never returned again, even after its entry is removed.
C6_IssuedStrictlyIncreasing ==
    \A i, j \in 1..Len(issued) : i < j => issued[i] < issued[j]

\* An add has just returned after an earlier entry was removed.
C6_Witness ==
    /\ call.op = "add" /\ ~panicked
    /\ Len(issued) >= 2
    /\ removed >= 1

\* C7: count() equals the number of add calls minus the number of remove
\* calls that found their identifier live, and a remove of an absent
\* identifier leaves count() as it was.
C7_CountIsAddsMinusRemoves ==
    /\ [](count = Len(issued) - removed)
    /\ [][\A id \in CorpusId :
            (call'.op = "remove" /\ call'.idx = Some(id) /\ id \notin Live)
            => count' = count]_vars

\* A remove of an absent identifier has just returned, after a successful one,
\* with entries still present.
C7_Witness ==
    /\ call.op = "remove" /\ call.ret = Ok(None)
    /\ removed >= 1
    /\ count >= 1

\* C8: first() and last() are both absent exactly when count() = 0, and
\* otherwise each names a live identifier.
C8_SentinelsAbsentIffEmpty ==
    ~panicked =>
        /\ (first = None /\ last = None) <=> (count = 0)
        /\ count > 0 => /\ first # None /\ first[1] \in Live
                        /\ last # None /\ last[1] \in Live

\* C9: for a live id, replace(id, v) returns the payload stored under id
\* before the call, makes get(id) observe v, and leaves next(id), prev(id),
\* first(), last(), count(), the allocator counter and every other entry as
\* they were.
C9_ReplaceSwapsPayloadOnly ==
    [][(call'.op = "replace" /\ call'.idx[1] \in Live)
        => LET id == call'.idx[1]
               v == call'.testcase[1]
           IN  /\ call'.ret = get(id)
               /\ get_of(feature, entries', id) = Ok(v)
               /\ next_of(feature, entries', id) = next(id)
               /\ prev_of(feature, entries', id) = prev(id)
               /\ first' = first
               /\ last' = last
               /\ count' = count
               /\ entries'.progressive_idx = entries.progressive_idx
               /\ Live' = Live
               /\ \A j \in Live \ {id} : entries'.map[j] = entries.map[j]]_vars

\* A replace of an interior live entry has just returned a payload other
\* than the one it stored.
C9_Witness ==
    /\ call.op = "replace" /\ call.ret.ok
    /\ call.ret.val # call.testcase[1]
    /\ next(call.idx[1]) # None
    /\ prev(call.idx[1]) # None

\* C10: get(id) and replace(id, v) return KeyNotFound exactly when id is not
\* live (never issued, or issued and since removed), and a failing get or
\* replace leaves entries, order, counter and cursor unchanged.
C10_KeyNotFoundIffNotLive ==
    [][\A id \in CorpusId :
        (call'.op \in {"get", "replace"} /\ call'.idx = Some(id))
        => /\ ~call'.ret.ok <=> id \notin Live
           /\ ~call'.ret.ok =>
                /\ call'.ret = KeyNotFound
                /\ entries' = entries
                /\ current' = current]_vars

\* A get of an identifier that was issued and then removed has just failed,
\* with the cursor set and other entries present.
C10_Witness ==
    /\ call.op = "get" /\ ~call.ret.ok
    /\ \E k \in 1..Len(issued) : issued[k] = call.idx[1]
    /\ current # None
    /\ count >= 1

\* C11: remove(id) of an identifier that is not live is not an error: it
\* returns Ok(None) and leaves the whole container state unchanged; a remove
\* leaves its identifier not live, so a second remove of it changes nothing.
C11_RemoveAbsentIsNoOp ==
    [][\A id \in CorpusId :
        (call'.op = "remove" /\ call'.idx = Some(id))
        => /\ id \notin Live'
           /\ id \notin Live =>
                /\ call'.ret = Ok(None)
                /\ entries' = entries
                /\ current' = current
                /\ ~panicked']_vars

\* A remove of an identifier that an earlier remove took out has just
\* returned, with other entries present and the cursor set.
C11_Witness ==
    /\ call.op = "remove" /\ call.ret = Ok(None)
    /\ \E k \in 1..Len(issued) : issued[k] = call.idx[1]
    /\ count >= 1
    /\ current # None

\* C12: in both builds next(id) and prev(id) return nothing whenever id is
\* not live: removed and lying between two live identifiers, or smaller or
\* larger than every live identifier.
C12_AbsentIdHasNoNeighbour ==
    \A id \in CorpusId \ Live : next(id) = None /\ prev(id) = None

\* BTreeMap build: a removed identifier lies between two live ones, and
\* another absent identifier is larger than every live one.
C12_Witness ==
    /\ feature = "btreemap"
    /\ \E id \in CorpusId \ Live :
          /\ \E lo \in Live : lo < id
          /\ \E hi \in Live : hi > id
    /\ \E id \in CorpusId \ Live : \A k \in Live : k < id

\* C16: Linked-Index structural invariant: every live entry's successor is
\* live and points back to it, every live entry's predecessor is live and
\* points forward to it, the head has no predecessor, the tail has no
\* successor, and head and tail are both absent iff the map is empty.
C16_LinkedIndexInvariant ==
    (feature = "hashmap" /\ ~panicked) =>
        /\ \A e \in Live :
              /\ entries.map[e].next # None =>
                    /\ entries.map[e].next[1] \in Live
                    /\ entries.map[entries.map[e].next[1]].prev = Some(e)
              /\ entries.map[e].prev # None =>
                    /\ entries.map[e].prev[1] \in Live
                    /\ entries.map[entries.map[e].prev[1]].next = Some(e)
        /\ entries.first_idx # None =>
              /\ entries.first_idx[1] \in Live
              /\ entries.map[entries.first_idx[1]].prev = None
        /\ entries.last_idx # None =>
              /\ entries.last_idx[1] \in Live
              /\ entries.map[entries.last_idx[1]].next = None
        /\ (entries.first_idx = None /\ entries.last_idx = None) <=> (Live = {})

\* C17: the cursor is orthogonal state: only a write through current_mut
\* changes current; add, replace, remove, get, count and the traversal
\* queries leave it alone, so remove(id) with current = id leaves current = id.
C17_OnlyCurrentMutMovesCursor ==
    [][call'.op # "current_mut" => current' = current]_vars

\* A remove has just taken out the entry the cursor names: current still
\* names it and it is not live.
C17_Witness ==
    /\ call.op = "remove" /\ call.ret.ok /\ call.ret.val # None
    /\ current = call.idx
    /\ current[1] \notin Live

\* C18: no dangling traversal results: every identifier returned by first(),
\* last(), next(id) or prev(id) is live, so get on it succeeds.
C18_TraversalResultsAreLive ==
    ~panicked =>
        /\ first # None => get(first[1]).ok
        /\ last # None => get(last[1]).ok
        /\ \A id \in CorpusId :
              /\ next(id) # None => get(next(id)[1]).ok
              /\ prev(id) # None => get(prev(id)[1]).ok

\* C13: the two builds have the same external contract: driven by the same
\* calls they return the same identifiers and results, and after every step
\* give the same answers to count(), get(id), first(), last(), next(id) and
\* prev(id) for every id.
C13_StrategiesAgree ==
    /\ twin.panicked = panicked
    /\ (~panicked /\ ~twin.panicked) =>
          /\ twin.ret = call.ret
          /\ Cardinality(DOMAIN twin.entries.map) = count
          /\ first_of(other(feature), twin.entries) = first
          /\ last_of(other(feature), twin.entries) = last
          /\ \A id \in CorpusId :
                /\ get_of(other(feature), twin.entries, id) = get(id)
                /\ next_of(other(feature), twin.entries, id) = next(id)
                /\ prev_of(other(feature), twin.entries, id) = prev(id)

\* C14: a remove of a live id returns the payload stored under id at that
\* moment, the one handed to the add that issued id or to the latest
\* successful replace of id; afterwards get(id) fails and every other live
\* entry is still live with its payload.
C14_RemoveReturnsStoredPayload ==
    [][(call'.op = "remove" /\ call'.idx[1] \in Live)
        => LET id == call'.idx[1]
           IN  /\ call'.ret = Ok(Some(given[id]))
               /\ get_of(feature, entries', id) = KeyNotFound
               /\ \A j \in Live \ {id} :
                     get_of(feature, entries', j) = Ok(given[j])]_vars

\* A remove has just returned the payload "B" of the entry it took out,
\* while an entry with payload "A" stays live.
C14_Witness ==
    /\ call.op = "remove" /\ call.ret = Ok(Some("B"))
    /\ count >= 1
    /\ \A j \in Live : get(j) = Ok("A")

\* The walk by next() from first() on a storage s of build f.
RECURSIVE WalkNextOf(_, _, _, _)
WalkNextOf(f, s, o, fuel) ==
    IF o = None \/ fuel = 0 THEN << >>
    ELSE << o[1] >> \o WalkNextOf(f, s, next_of(f, s, o[1]), fuel - 1)

ForwardOf(f, s) == WalkNextOf(f, s, first_of(f, s), MaxIdx + 2)

\* C15: serializing a store state and deserializing it gives a store with the
\* same traversal order and the same payloads, whose allocator counter is at
\* least one more than the largest identifier present.
C15_RoundTripKeepsStore ==
    [][call'.op = "round_trip"
        => /\ ForwardOf(feature, entries') = ForwardOf(feature, entries)
           /\ \A id \in CorpusId :
                 get_of(feature, entries', id) = get_of(feature, entries, id)
           /\ \A id \in DOMAIN entries'.map : entries'.progressive_idx >= id + 1
           /\ current' = current]_vars

\* A store that has lost its first entry and holds two entries with
\* different payloads has just been round-tripped.
C15_Witness ==
    /\ call.op = "round_trip"
    /\ removed >= 1
    /\ Live = {1, 2}
    /\ get(1) # get(2)

====
